---- MODULE Spec2Model ----
(***************************************************************************)
(* Model of the A2A task manager of agents-python (a2a_agent.py).          *)
(*                                                                         *)
(* A2ATaskManager keeps two dictionaries, task_results and running_tasks.  *)
(* Its coroutines run on one asyncio event loop: a coroutine runs without  *)
(* interruption until it awaits something that suspends.  start_task,      *)
(* get_task_status and cancel_task contain no suspending await, so each of *)
(* them is one atomic action.  _execute_task suspends exactly once, at     *)
(* `await self.execution_agent.run(user_input)`, so it is split there.     *)
(***************************************************************************)
EXTENDS Integers, Sequences, FiniteSets, TLC

\* ---------------------------------------------------------------- bounds
\* Number of asyncio tasks start_task may create in one behaviour.
MaxTasks == 2

\* The id the callers of SpecLive use.
LiveId == "t1"

\* Request ids the callers use, texts the agent may return, messages of the
\* exceptions the agent may raise.
TaskIds == {"t1", "t2"}
Texts == {"r1", "r2"}
Errors == {"e1"}

\* str(e) of the exception raised when scheduling fails in start_task.
SchedError == "sched"

\* ---------------------------------------------------------------- state
VARIABLES
    task_results,   \* A2ATaskManager.task_results: id -> A2ATaskResponse
    running_tasks,  \* A2ATaskManager.running_tasks: id -> asyncio.Task (0: absent)
    tasks,          \* the asyncio tasks created so far, in creation order
    polled,         \* per id, the last record a poller was given for the
                    \* task most recently started under that id
    lastOp,         \* the API call the last step made and what it returned
    run,            \* the workflow run of one /analyze request (WorkflowRun)
    call            \* the last application of a routing condition or of a
                    \* reply rule to an argument, with its result

vars == <<task_results, running_tasks, tasks, polled, lastOp, run, call>>

\* A2ATaskStatus, as used by a2a_agent.py.
A2ATaskStatus == {"pending", "running", "completed", "failed", "cancelled"}
Terminal == {"completed", "failed", "cancelled"}

\* A2ATaskResponse(id, status, result, error); the id is the key it is stored
\* under, the metadata timestamps are not modelled.
A2ATaskResponse(status, result, error) ==
    [status |-> status, result |-> result, error |-> error]

\* dict.get(task_id) on a missing key: None.
None == A2ATaskResponse("none", "", "")

\* lastOp when the last step was not a call of the API (a step of a
\* background task), and before any call.  ret is the A2ATaskResponse a call
\* returned (start_task, get_task_status), ok the bool cancel_task returned.
NoOp == [op |-> "none", id |-> "", ret |-> None, ok |-> FALSE]

Called(op, id, ret, ok) == [op |-> op, id |-> id, ret |-> ret, ok |-> ok]

\* `task_id in self.running_tasks`
InRunning(id) == running_tasks[id] # 0

\* No /analyze request has been made: no workflow run exists.
NoRun ==
    [status |-> "idle", pending |-> <<>>, trace |-> <<>>, emitted |-> <<>>,
     outputs |-> <<>>, reply |-> [status |-> "none", result |-> <<>>]]

\* Nothing has been applied yet.
NoCall == [fn |-> "none"]

Init ==
    /\ task_results = [i \in TaskIds |-> None]
    /\ running_tasks = [i \in TaskIds |-> 0]
    /\ tasks = <<>>
    /\ polled = [i \in TaskIds |-> None]
    /\ lastOp = NoOp
    /\ run = NoRun
    /\ call = NoCall

\* ------------------------------------------------------------ asyncio.Task
\* One asyncio task wrapping _execute_task(request).  pc is the coroutine's
\* position: "scheduled" (created, not yet run by the loop), "awaiting"
\* (suspended in `await self.execution_agent.run(user_input)`), "resolved"
\* (the agent call has ended with `out`, the task's wake-up is queued on the
\* loop), "done".  cancels counts the task.cancel() calls made on it.  out
\* is the outcome of the agent call while the wake-up is queued: the text
\* returned or the message of the Exception raised.
NewTask(id) == [id |-> id, pc |-> "scheduled", cancels |-> 0, out |-> ""]

Handles == 1..Len(tasks)

\* The agent call of task h has ended with `out`.
Resolved(h, out) == [tasks EXCEPT ![h].pc = "resolved", ![h].out = out]

\* The task's coroutine has ended.
Done(h) == [tasks EXCEPT ![h].pc = "done", ![h].out = ""]

\* The clean-up emptying the dictionary (`self.running_tasks.clear()`).
CleanUp_clear(id) == [i \in TaskIds |-> 0]

\* `if request.id in self.running_tasks: del self.running_tasks[request.id]`
CleanUp(id) == [running_tasks EXCEPT ![id] = 0]

\* The end of a run of _execute_task for task h: the record it stores under
\* request.id and the clean-up that follows, in one step of the event loop.
Finish(h, response) ==
    /\ task_results' = [task_results EXCEPT ![tasks[h].id] = response]
    /\ running_tasks' = CleanUp(tasks[h].id)
    /\ tasks' = Done(h)
    /\ lastOp' = NoOp
    /\ UNCHANGED <<polled, run, call>>

\* -------------------------------------------------------------- start_task
\* A start_task call under `id` begins a new task: what pollers were given for
\* the task that had the id before is not about this one.
Forget(id) == [polled EXCEPT ![id] = None]

\* start_task returning before it promotes the record: pending is stored and
\* returned.
start_task_returns_pending(id) ==
    /\ Len(tasks) < MaxTasks
    /\ tasks' = Append(tasks, NewTask(id))
    /\ running_tasks' = [running_tasks EXCEPT ![id] = Len(tasks) + 1]
    /\ task_results' = [task_results EXCEPT ![id] = A2ATaskResponse("pending", "", "")]
    /\ lastOp' = Called("start", id, A2ATaskResponse("pending", "", ""), TRUE)
    /\ polled' = Forget(id)
    /\ UNCHANGED <<run, call>>

\* start_task with a suspension point between the pending write and the
\* promotion: the step ends with pending stored and the task created.
start_task_awaits(id) ==
    /\ Len(tasks) < MaxTasks
    /\ tasks' = Append(tasks, NewTask(id))
    /\ running_tasks' = [running_tasks EXCEPT ![id] = Len(tasks) + 1]
    /\ task_results' = [task_results EXCEPT ![id] = A2ATaskResponse("pending", "", "")]
    /\ lastOp' = NoOp
    /\ polled' = Forget(id)
    /\ UNCHANGED <<run, call>>

\* start_task(request) when nothing in the try block raises: the pending
\* record is stored, the task is created and tracked, and the same response
\* object, promoted to running, is stored again and returned.
start_task_ok(id) ==
    /\ Len(tasks) < MaxTasks
    /\ tasks' = Append(tasks, NewTask(id))
    /\ running_tasks' = [running_tasks EXCEPT ![id] = Len(tasks) + 1]
    /\ task_results' = [task_results EXCEPT ![id] = A2ATaskResponse("running", "", "")]
    /\ lastOp' = Called("start", id, A2ATaskResponse("running", "", ""), TRUE)
    /\ polled' = Forget(id)
    /\ UNCHANGED <<run, call>>

\* start_task whose except branch returns the failed record without storing
\* it.
start_task_fails_not_stored(id) ==
    /\ lastOp' = Called("start", id, A2ATaskResponse("failed", "", SchedError), FALSE)
    /\ polled' = Forget(id)
    /\ UNCHANGED <<run, call>>
    /\ UNCHANGED <<task_results, running_tasks, tasks>>

\* start_task(request) when scheduling raises (asyncio.create_task at line
\* 43, or the response construction before it): the except branch stores and
\* returns a failed record; running_tasks is not touched.
start_task_fails(id) ==
    /\ task_results' = [task_results EXCEPT ![id] = A2ATaskResponse("failed", "", SchedError)]
    /\ lastOp' = Called("start", id, A2ATaskResponse("failed", "", SchedError), FALSE)
    /\ polled' = Forget(id)
    /\ UNCHANGED <<run, call>>
    /\ UNCHANGED <<running_tasks, tasks>>

start_task(id) == start_task_ok(id) \/ start_task_fails(id)

\* ----------------------------------------------------- handle_task_request
\* str(e) of the exception A2ATaskRequest(**request_data) raises.
ParseError == "parse"

\* handle_task_request storing the failed reply under the id of the request.
handle_task_request_invalid_stored(id) ==
    /\ task_results' = [task_results EXCEPT ![id] = A2ATaskResponse("failed", "", ParseError)]
    /\ lastOp' = Called("request", id, A2ATaskResponse("failed", "", ParseError), FALSE)
    /\ UNCHANGED <<running_tasks, tasks, polled, run, call>>

\* A2AHostAgent.handle_task_request(request_data) when
\* A2ATaskRequest(**request_data) raises: the except branch returns the
\* failed dictionary with request_data.get("id"); start_task is not reached.
\* (When the request parses, the handler is start_task and a dump of what it
\* returned.)
handle_task_request_invalid(id) ==
    /\ lastOp' = Called("request", id, A2ATaskResponse("failed", "", ParseError), FALSE)
    /\ UNCHANGED <<task_results, running_tasks, tasks, polled, run, call>>

\* ----------------------------------------------------------- _execute_task
\* The loop runs the task for the first time.  A task cancelled before its
\* first step gets CancelledError thrown into the unstarted coroutine: its
\* body never runs.  Otherwise it runs up to the await of the agent call.
execute_task_begin(h) ==
    /\ tasks[h].pc = "scheduled"
    /\ tasks' = IF tasks[h].cancels > 0 THEN Done(h) ELSE [tasks EXCEPT ![h].pc = "awaiting"]
    /\ lastOp' = NoOp
    /\ UNCHANGED <<task_results, running_tasks, polled, run, call>>

\* Reading the request raises before the agent is called (lines 65-76, e.g.
\* messages[-1] is not a dict): the except branch records the failure.
execute_task_bad_input(h, e) ==
    /\ tasks[h].pc = "scheduled"
    /\ tasks[h].cancels = 0
    /\ Finish(h, A2ATaskResponse("failed", "", e))

\* The agent call returns `text`.  After a cancel() this happens only when
\* the agent call swallowed the CancelledError thrown into it and went on.
agent_returns(h, text) ==
    /\ tasks[h].pc = "awaiting"
    /\ tasks' = Resolved(h, text)
    /\ lastOp' = NoOp
    /\ UNCHANGED <<task_results, running_tasks, polled, run, call>>

\* The agent call raises an Exception with message e.  After a cancel()
\* this is an agent that turned the CancelledError into its own Exception.
agent_raises(h, e) ==
    /\ tasks[h].pc = "awaiting"
    /\ tasks' = Resolved(h, e)
    /\ lastOp' = NoOp
    /\ UNCHANGED <<task_results, running_tasks, polled, run, call>>

\* _execute_task without the clean-up after a completed run.
execute_task_completed_no_cleanup(h) ==
    /\ tasks[h].pc = "resolved"
    /\ tasks[h].out \in Texts
    /\ task_results' = [task_results EXCEPT
                            ![tasks[h].id] = A2ATaskResponse("completed", tasks[h].out, "")]
    /\ tasks' = Done(h)
    /\ lastOp' = NoOp
    /\ UNCHANGED <<running_tasks, polled, run, call>>

\* The task resumes after the await with the agent's text: lines 82-98.
execute_task_completed(h) ==
    /\ tasks[h].pc = "resolved"
    /\ tasks[h].out \in Texts
    /\ Finish(h, A2ATaskResponse("completed", tasks[h].out, ""))

\* _execute_task without its except branch: the Exception ends the task,
\* nothing is recorded.
execute_task_failed_uncaught(h) ==
    /\ tasks[h].pc = "resolved"
    /\ tasks[h].out \in Errors
    /\ tasks' = Done(h)
    /\ lastOp' = NoOp
    /\ UNCHANGED <<task_results, running_tasks, polled, run, call>>

\* The task resumes after the await with the agent's Exception: lines
\* 100-114.
execute_task_failed(h) ==
    /\ tasks[h].pc = "resolved"
    /\ tasks[h].out \in Errors
    /\ Finish(h, A2ATaskResponse("failed", "", tasks[h].out))

\* The CancelledError thrown into the task at its await propagates: it is a
\* BaseException, `except Exception` does not catch it, and the task ends
\* without writing anything.  A cancel() that lands after the agent call
\* ended but before the task resumed still throws: the outcome is dropped.
execute_task_cancelled(h) ==
    /\ tasks[h].pc \in {"awaiting", "resolved"}
    /\ tasks[h].cancels > 0
    /\ tasks' = Done(h)
    /\ lastOp' = NoOp
    /\ UNCHANGED <<task_results, running_tasks, polled, run, call>>

\* --------------------------------------------------------- get_task_status
\* get_task_status taking the record out of the dictionary
\* (`self.task_results.pop(task_id, None)`).
Lookup_pops(id) ==
    /\ lastOp' = Called("status", id, task_results[id], TRUE)
    /\ task_results' = [task_results EXCEPT ![id] = None]
    /\ UNCHANGED <<running_tasks, tasks>>

\* `return self.task_results.get(task_id)`
Lookup(id) ==
    /\ lastOp' = Called("status", id, task_results[id], TRUE)
    /\ UNCHANGED <<task_results, running_tasks, tasks>>

get_task_status(id) ==
    /\ Lookup(id)
    /\ UNCHANGED <<polled, run, call>>

\* get_task_status called by a poller that remembers what it was given.
poll_task_status(id) ==
    /\ Lookup(id)
    /\ polled' = [polled EXCEPT ![id] = task_results[id]]
    /\ UNCHANGED <<run, call>>

\* handle_task_status_request reporting a missing record as a failed task.
handle_task_status_request_as_failed(response) ==
    IF response # None
        THEN response
        ELSE A2ATaskResponse("failed", "", "Task not found")

\* A2AHostAgent.handle_task_status_request: what the caller is sent for the
\* record get_task_status returned.  `if response:` is true of every
\* A2ATaskResponse and false of None.
handle_task_status_request(response) ==
    IF response # None
        THEN response
        ELSE A2ATaskResponse("not_found", "", "Task not found")

\* ------------------------------------------------------------- cancel_task
\* cancel_task that signals the task and forgets the handle without storing
\* the cancelled record.
cancel_task_no_record(id) ==
    IF InRunning(id)
    THEN /\ tasks' = [tasks EXCEPT ![running_tasks[id]].cancels = @ + 1]
         /\ running_tasks' = [running_tasks EXCEPT ![id] = 0]
         /\ lastOp' = Called("cancel", id, None, TRUE)
         /\ UNCHANGED <<task_results, polled, run, call>>
    ELSE /\ lastOp' = Called("cancel", id, None, FALSE)
         /\ UNCHANGED <<task_results, running_tasks, tasks, polled, run, call>>

\* cancel_task without `del self.running_tasks[task_id]`.
cancel_task_keeps_handle(id) ==
    IF InRunning(id)
    THEN /\ tasks' = [tasks EXCEPT ![running_tasks[id]].cancels = @ + 1]
         /\ task_results' = [task_results EXCEPT ![id] = A2ATaskResponse("cancelled", "", "")]
         /\ lastOp' = Called("cancel", id, None, TRUE)
         /\ UNCHANGED <<running_tasks, polled, run, call>>
    ELSE /\ lastOp' = Called("cancel", id, None, FALSE)
         /\ UNCHANGED <<task_results, running_tasks, tasks, polled, run, call>>

\* cancel_task without `task.cancel()`.
cancel_task_no_signal(id) ==
    IF InRunning(id)
    THEN /\ task_results' = [task_results EXCEPT ![id] = A2ATaskResponse("cancelled", "", "")]
         /\ running_tasks' = [running_tasks EXCEPT ![id] = 0]
         /\ lastOp' = Called("cancel", id, None, TRUE)
         /\ UNCHANGED <<tasks, polled, run, call>>
    ELSE /\ lastOp' = Called("cancel", id, None, FALSE)
         /\ UNCHANGED <<task_results, running_tasks, tasks, polled, run, call>>

cancel_task(id) ==
    IF InRunning(id)
    THEN /\ tasks' = [tasks EXCEPT ![running_tasks[id]].cancels = @ + 1]
         /\ task_results' = [task_results EXCEPT ![id] = A2ATaskResponse("cancelled", "", "")]
         /\ running_tasks' = [running_tasks EXCEPT ![id] = 0]
         /\ lastOp' = Called("cancel", id, None, TRUE)
         /\ UNCHANGED <<polled, run, call>>
    ELSE /\ lastOp' = Called("cancel", id, None, FALSE)
         /\ UNCHANGED <<task_results, running_tasks, tasks, polled, run, call>>

\* ------------------------------------------------------------ specification
\* The steps of the background tasks.
TaskStep ==
    \/ \E h \in Handles : execute_task_begin(h)
    \/ \E h \in Handles, e \in Errors : execute_task_bad_input(h, e)
    \/ \E h \in Handles, text \in Texts : agent_returns(h, text)
    \/ \E h \in Handles, e \in Errors : agent_raises(h, e)
    \/ \E h \in Handles : execute_task_completed(h)
    \/ \E h \in Handles : execute_task_failed(h)
    \/ \E h \in Handles : execute_task_cancelled(h)

Next ==
    \/ \E id \in TaskIds : start_task(id)
    \/ \E id \in TaskIds : handle_task_request_invalid(id)
    \/ \E id \in TaskIds : get_task_status(id)
    \/ \E id \in TaskIds : cancel_task(id)
    \/ TaskStep

Spec == Init /\ [][Next]_vars

\* A step of the asyncio task h: the event loop runs it, or the agent call
\* it awaits ends.
TaskProgress(h) ==
    /\ h \in Handles
    /\ \/ execute_task_begin(h)
       \/ \E e \in Errors : execute_task_bad_input(h, e)
       \/ \E text \in Texts : agent_returns(h, text)
       \/ \E e \in Errors : agent_raises(h, e)
       \/ execute_task_completed(h)
       \/ execute_task_failed(h)
       \/ execute_task_cancelled(h)

\* The program with every call made under LiveId.
NextLive ==
    \/ start_task(LiveId)
    \/ handle_task_request_invalid(LiveId)
    \/ get_task_status(LiveId)
    \/ cancel_task(LiveId)
    \/ TaskStep

\* That program when the event loop keeps running the tasks that are ready
\* and every agent call ends (it returns, raises, or is cancelled).
SpecLive ==
    /\ Init
    /\ [][NextLive]_vars
    /\ \A h \in 1..MaxTasks : WF_vars(TaskProgress(h))

\* The same program, watched by pollers that remember what they were given.
NextPolled ==
    \/ \E id \in TaskIds : start_task(id)
    \/ \E id \in TaskIds : handle_task_request_invalid(id)
    \/ \E id \in TaskIds : poll_task_status(id)
    \/ \E id \in TaskIds : cancel_task(id)
    \/ TaskStep

SpecPolled == Init /\ [][NextPolled]_vars

TypeOK ==
    /\ \A i \in TaskIds : task_results[i].status \in A2ATaskStatus \cup {"none"}
    /\ \A i \in TaskIds : running_tasks[i] \in 0..Len(tasks)
    /\ Len(tasks) <= MaxTasks

\* ======================================================= workflow (main.py)
\* The financial compliance workflow of custom-workflow-python.  A text is a
\* sequence of characters; the fixed lines of the f-string templates are
\* single symbols, the line breaks and blanks around them are characters.

\* ---------------------------------------------------------------- bounds
\* Number of fragments an agent's response text is put together from.
MaxFragments == 2

\* Number of outputs a run may have yielded when workflow.run returns.
MaxOutputs == 2

\* Pieces of response text: keywords in upper, mixed and lower case, a
\* keyword split over two pieces ("ri" + "sk"), words that are no keyword,
\* and a blank.
Fragments ==
    { <<"S", "O", "X">>,
      <<"C", "o", "m", "p", "l", "i", "a", "n", "c", "e">>,
      <<"r", "i">>, <<"s", "k">>, <<"o", "k">>, <<" ">> }

RECURSIVE Concat(_)
Concat(ts) == IF ts = <<>> THEN <<>> ELSE Head(ts) \o Concat(Tail(ts))

\* The texts the financial analysis agent may answer with.
FinTexts ==
    { Concat(fs) : fs \in UNION { [1..n -> Fragments] : n \in 0..MaxFragments } }

\* The texts the policy lookup agent may answer with.
PolicyTexts == { <<>>, <<"p", "o", "l", "i", "c", "y">> }

\* ------------------------------------------------------------------- str
Upper ==
    {"A", "B", "C", "D", "E", "F", "G", "H", "I", "J", "K", "L", "M",
     "N", "O", "P", "Q", "R", "S", "T", "U", "V", "W", "X", "Y", "Z"}

\* str.lower() on one character.
LowerCase ==
    [c \in Upper |->
        CASE c = "A" -> "a"
          [] c = "B" -> "b"
          [] c = "C" -> "c"
          [] c = "D" -> "d"
          [] c = "E" -> "e"
          [] c = "F" -> "f"
          [] c = "G" -> "g"
          [] c = "H" -> "h"
          [] c = "I" -> "i"
          [] c = "J" -> "j"
          [] c = "K" -> "k"
          [] c = "L" -> "l"
          [] c = "M" -> "m"
          [] c = "N" -> "n"
          [] c = "O" -> "o"
          [] c = "P" -> "p"
          [] c = "Q" -> "q"
          [] c = "R" -> "r"
          [] c = "S" -> "s"
          [] c = "T" -> "t"
          [] c = "U" -> "u"
          [] c = "V" -> "v"
          [] c = "W" -> "w"
          [] c = "X" -> "x"
          [] c = "Y" -> "y"
          [] c = "Z" -> "z"]

\* str.lower()
Lower(text) ==
    [i \in 1..Len(text) |-> IF text[i] \in Upper THEN LowerCase[text[i]] ELSE text[i]]

\* `keyword in text`
In(keyword, text) ==
    \E i \in 0..(Len(text) - Len(keyword)) :
        \A j \in 1..Len(keyword) : text[i + j] = keyword[j]

Whitespace == {" ", "\n", "\t"}

RECURSIVE LStrip(_)
LStrip(text) ==
    IF text # <<>> /\ Head(text) \in Whitespace THEN LStrip(Tail(text)) ELSE text

RECURSIVE RStrip(_)
RStrip(text) ==
    IF text # <<>> /\ text[Len(text)] \in Whitespace
        THEN RStrip(SubSeq(text, 1, Len(text) - 1))
        ELSE text

\* str.strip()
Strip(text) == RStrip(LStrip(text))

\* -------------------------------------------------------------- messages
\* An AgentExecutorResponse whose agent_run_response.text is `text`.
Response(text) == [kind |-> "AgentExecutorResponse", readable |-> TRUE, text |-> text]

\* An AgentExecutorResponse on which reading agent_run_response.text raises
\* (agent_run_response is None, or has no text).
UnreadableResponse == [kind |-> "AgentExecutorResponse", readable |-> FALSE, text |-> <<>>]

\* AgentExecutorRequest(messages=[ChatMessage(Role.USER, text=text)])
Request(text) == [kind |-> "AgentExecutorRequest", readable |-> TRUE, text |-> text]

\* The agent behind an AgentExecutor raised instead of answering.
AgentError == [kind |-> "Exception", readable |-> FALSE, text |-> <<>>]

\* ------------------------------------------------ get_policy_review_condition
policy_keywords ==
    << <<"c", "o", "m", "p", "l", "i", "a", "n", "c", "e">>,
       <<"p", "o", "l", "i", "c", "y">>,
       <<"r", "e", "g", "u", "l", "a", "t", "i", "o", "n">>,
       <<"r", "i", "s", "k">>,
       <<"a", "u", "d", "i", "t">>,
       <<"l", "e", "g", "a", "l">>,
       <<"g", "o", "v", "e", "r", "n", "a", "n", "c", "e">>,
       <<"s", "o", "x">>,
       <<"a", "s", "c", " ", "6", "0", "6">>,
       <<"r", "e", "v", "e", "n", "u", "e", " ", "r", "e", "c", "o", "g", "n", "i", "t", "i", "o", "n">>,
       <<"c", "o", "m", "m", "i", "s", "s", "i", "o", "n">>,
       <<"i", "n", "t", "e", "r", "n", "a", "t", "i", "o", "n", "a", "l">>,
       <<"r", "e", "g", "u", "l", "a", "t", "o", "r", "y">>,
       <<"s", "t", "a", "n", "d", "a", "r", "d", "s">> >>

\* needs_review computed on the text as it is, without lower().
needs_review_case_sensitive(text) ==
    \E k \in 1..Len(policy_keywords) : In(policy_keywords[k], text)

\* Lines 122-132: `any(keyword in response_text for keyword in
\* policy_keywords)` on the lowered text.
needs_review(text) ==
    \E k \in 1..Len(policy_keywords) : In(policy_keywords[k], Lower(text))

\* condition whose except branch returns True.
condition_except_accepts(expected_review_needed, message) ==
    IF message.kind # "AgentExecutorResponse"
        THEN TRUE
        ELSE IF message.readable
            THEN needs_review(message.text) = expected_review_needed
            ELSE TRUE

\* get_policy_review_condition(expected_review_needed)(message)
condition(expected_review_needed, message) ==
    IF message.kind # "AgentExecutorResponse"
        THEN TRUE
        ELSE IF message.readable
            THEN needs_review(message.text) = expected_review_needed
            ELSE expected_review_needed = FALSE

\* -------------------------------------------------------------- executors
\* What one execution of an executor did: the messages it sent with
\* ctx.send_message, the outputs it yielded with ctx.yield_output, and
\* whether it raised.
Sends(message) == [sent |-> <<message>>, yielded |-> <<>>, raised |-> FALSE]
Yields(output) == [sent |-> <<>>, yielded |-> <<output>>, raised |-> FALSE]
Raises == [sent |-> <<>>, yielded |-> <<>>, raised |-> TRUE]

\* AgentExecutor: the wrapped agent answers with a response, which is sent
\* on, or raises.
AgentExecutor(outcome) ==
    IF outcome = AgentError THEN Raises ELSE Sends(outcome)

\* handle_compliance_report (not wired into the graph).
handle_compliance_report(response) ==
    IF response.readable
        THEN Yields(Strip(<<"\n", "FINANCIAL ANALYSIS & COMPLIANCE REPORT", "\n",
                            "====================================", "\n", "\n">>
                          \o response.text \o <<"\n">>))
        ELSE Yields(<<"Error generating compliance report: ", "str(e)">>)

\* handle_financial_only yielding the stripped analysis alone.
handle_financial_only_bare(response) ==
    IF response.readable
        THEN Yields(Strip(response.text))
        ELSE Yields(<<>>)

handle_financial_only(response) ==
    IF response.readable
        THEN Yields(Strip(<<"\n", "FINANCIAL ANALYSIS REPORT", "\n",
                            "========================", "\n", "\n">>
                          \o response.text
                          \o <<"\n", "\n",
                               "STATUS: No policy compliance review required.",
                               "\n">>))
        ELSE Yields(<<"Error processing financial analysis: ", "str(e)">>)

PolicyFallback == <<"Please lookup general sales and revenue recognition policies.">>

\* to_policy_lookup_request sending the fallback request after the
\* templated one as well (the fallback in a `finally`).
to_policy_lookup_request_sends_both(response) ==
    IF response.readable
        THEN [sent |-> <<Request(Strip(<<"\n", "Based on the following financial analysis:",
                                         "\n", "\n">>
                                       \o response.text
                                       \o <<"\n", "\n",
                                            "Please find relevant policies ...",
                                            "\n">>)),
                        Request(PolicyFallback)>>,
              yielded |-> <<>>, raised |-> FALSE]
        ELSE Sends(Request(PolicyFallback))

to_policy_lookup_request(response) ==
    IF response.readable
        THEN Sends(Request(Strip(<<"\n", "Based on the following financial analysis:",
                                   "\n", "\n">>
                                 \o response.text
                                 \o <<"\n", "\n",
                                      "Please find relevant policies ...",
                                      "\n">>)))
        ELSE Sends(Request(PolicyFallback))

ComplianceFallback == <<"Please generate a basic compliance report.">>

\* to_compliance_report_request without its except branch.
to_compliance_report_request_no_fallback(response) ==
    IF response.readable
        THEN Sends(Request(Strip(<<"\n", "Generate a comprehensive compliance report ...",
                                   "\n", "\n">>
                                 \o response.text
                                 \o <<"\n", "\n",
                                      "Please create a compliance report ...",
                                      "\n">>)))
        ELSE Raises

to_compliance_report_request(response) ==
    IF response.readable
        THEN Sends(Request(Strip(<<"\n", "Generate a comprehensive compliance report ...",
                                   "\n", "\n">>
                                 \o response.text
                                 \o <<"\n", "\n",
                                      "Please create a compliance report ...",
                                      "\n">>)))
        ELSE Sends(Request(ComplianceFallback))

\* mock_compliance_agent: the report does not depend on the request.
mock_compliance_agent(request) ==
    Yields(Strip(<<"\n", "FINANCIAL ANALYSIS & COMPLIANCE REPORT", "\n",
                   "====================================", "\n", "\n",
                   "EXECUTIVE SUMMARY: ...", "\n">>))

\* ------------------------------------------------------------------ graph
Edge(from, to, cond) == [from |-> from, to |-> to, cond |-> cond]

\* The graph with an edge from the compliance request transform back to the
\* financial agent.
EdgesWithCycle ==
    << Edge("financial_analysis_agent", "to_policy_lookup_request", "review"),
       Edge("to_policy_lookup_request", "policy_lookup_agent", "always"),
       Edge("policy_lookup_agent", "to_compliance_report_request", "always"),
       Edge("to_compliance_report_request", "financial_analysis_agent", "always"),
       Edge("financial_analysis_agent", "handle_financial_only", "no_review") >>

\* The graph with the policy path attached to the start node a second time,
\* without a condition.
EdgesAlwaysPolicy ==
    << Edge("financial_analysis_agent", "to_policy_lookup_request", "review"),
       Edge("to_policy_lookup_request", "policy_lookup_agent", "always"),
       Edge("policy_lookup_agent", "to_compliance_report_request", "always"),
       Edge("to_compliance_report_request", "mock_compliance_agent", "always"),
       Edge("financial_analysis_agent", "handle_financial_only", "no_review"),
       Edge("financial_analysis_agent", "policy_lookup_agent", "always") >>

\* The graph with both edges out of the financial agent unconditional.
EdgesBothUnconditional ==
    << Edge("financial_analysis_agent", "to_policy_lookup_request", "always"),
       Edge("to_policy_lookup_request", "policy_lookup_agent", "always"),
       Edge("policy_lookup_agent", "to_compliance_report_request", "always"),
       Edge("to_compliance_report_request", "mock_compliance_agent", "always"),
       Edge("financial_analysis_agent", "handle_financial_only", "always") >>

\* The graph without the edge from the compliance request transform to the
\* compliance node.
EdgesDeadEnd ==
    << Edge("financial_analysis_agent", "to_policy_lookup_request", "review"),
       Edge("to_policy_lookup_request", "policy_lookup_agent", "always"),
       Edge("policy_lookup_agent", "to_compliance_report_request", "always"),
       Edge("financial_analysis_agent", "handle_financial_only", "no_review") >>

\* The edges in the order create_workflow_with_client adds them; "review" is
\* get_policy_review_condition(True), "no_review" is
\* get_policy_review_condition(False), "always" is an edge without condition.
Edges ==
    << Edge("financial_analysis_agent", "to_policy_lookup_request", "review"),
       Edge("to_policy_lookup_request", "policy_lookup_agent", "always"),
       Edge("policy_lookup_agent", "to_compliance_report_request", "always"),
       Edge("to_compliance_report_request", "mock_compliance_agent", "always"),
       Edge("financial_analysis_agent", "handle_financial_only", "no_review") >>

\* set_start_executor(financial_executor)
StartExecutor == "financial_analysis_agent"

\* Whether the edge lets the message through.
Accepts(edge, message) ==
    CASE edge.cond = "always" -> TRUE
      [] edge.cond = "review" -> condition(TRUE, message)
      [] edge.cond = "no_review" -> condition(FALSE, message)

\* A message sent by `node` is delivered along every edge out of the node
\* whose condition accepts it.
Deliver(node, message) ==
    LET accepting == SelectSeq(Edges, LAMBDA e : e.from = node /\ Accepts(e, message))
    IN  [i \in 1..Len(accepting) |-> [to |-> accepting[i].to, msg |-> message]]

RECURSIVE DeliverAll(_, _)
DeliverAll(node, messages) ==
    IF messages = <<>>
        THEN <<>>
        ELSE Deliver(node, Head(messages)) \o DeliverAll(node, Tail(messages))

\* ----------------------------------------------- analyze_financial_compliance
\* What workflow.run gave the handler: it raised, or it returned events
\* whose get_outputs() is `outputs`.
RunRaised == [raised |-> TRUE, outputs |-> <<>>]
RunReturned(outputs) == [raised |-> FALSE, outputs |-> outputs]

\* The reply of the handler that answers a run without output with an HTTP
\* 500.
analyze_reply_conflated(events) ==
    IF events.raised \/ events.outputs = <<>>
        THEN [status |-> "http_500", result |-> <<"str(e)">>]
        ELSE [status |-> "success", result |-> events.outputs[1]]

\* Lines 465-481: the reply of the handler.
analyze_reply(events) ==
    IF events.raised
        THEN [status |-> "http_500", result |-> <<"str(e)">>]
        ELSE IF events.outputs # <<>>
            THEN [status |-> "success", result |-> events.outputs[1]]
            ELSE [status |-> "error", result |-> <<"No output generated from workflow">>]

\* ------------------------------------------------------------ workflow.run
manager == <<task_results, running_tasks, tasks, polled, lastOp>>

\* `events = await workflow.run(executor_request)`: the request is handed to
\* the start executor.
workflow_run ==
    /\ run.status = "idle"
    /\ run' = [run EXCEPT !.status = "running",
                          !.pending = <<[to |-> StartExecutor,
                                         msg |-> Request(<<"analysis_query">>)]>>]
    /\ UNCHANGED <<manager, call>>

\* The engine runs `node` on the message at the head of the queue; `result`
\* is what the executor did.  A raise ends the run and the handler's except
\* branch replies.
Executes(node, result) ==
    /\ run.status = "running"
    /\ run.pending # <<>>
    /\ Head(run.pending).to = node
    /\ run' = IF result.raised
                THEN [run EXCEPT !.status = "raised",
                                 !.pending = <<>>,
                                 !.trace = Append(@, node),
                                 !.emitted = <<>>,
                                 !.reply = analyze_reply(RunRaised)]
                ELSE [run EXCEPT !.pending = Tail(@) \o DeliverAll(node, result.sent),
                                 !.trace = Append(@, node),
                                 !.emitted = result.sent,
                                 !.outputs = @ \o result.yielded]
    /\ UNCHANGED <<manager, call>>

\* The message the engine is about to hand to an executor.
Incoming == Head(run.pending).msg

financial_analysis_agent(outcome) ==
    /\ run.pending # <<>>
    /\ Executes("financial_analysis_agent", AgentExecutor(outcome))

policy_lookup_agent(outcome) ==
    /\ run.pending # <<>>
    /\ Executes("policy_lookup_agent", AgentExecutor(outcome))

run_to_policy_lookup_request ==
    /\ run.pending # <<>>
    /\ Executes("to_policy_lookup_request", to_policy_lookup_request(Incoming))

run_to_compliance_report_request ==
    /\ run.pending # <<>>
    /\ Executes("to_compliance_report_request", to_compliance_report_request(Incoming))

run_mock_compliance_agent ==
    /\ run.pending # <<>>
    /\ Executes("mock_compliance_agent", mock_compliance_agent(Incoming))

run_handle_financial_only ==
    /\ run.pending # <<>>
    /\ Executes("handle_financial_only", handle_financial_only(Incoming))

\* No message is left to deliver: workflow.run returns and the handler
\* replies.
workflow_run_returns ==
    /\ run.status = "running"
    /\ run.pending = <<>>
    /\ run' = [run EXCEPT !.status = "completed",
                          !.reply = analyze_reply(RunReturned(run.outputs))]
    /\ UNCHANGED <<manager, call>>

NextWorkflow ==
    \/ workflow_run
    \/ \E outcome \in {Response(t) : t \in FinTexts} \cup {UnreadableResponse, AgentError} :
            financial_analysis_agent(outcome)
    \/ \E outcome \in {Response(t) : t \in PolicyTexts} \cup {UnreadableResponse, AgentError} :
            policy_lookup_agent(outcome)
    \/ run_to_policy_lookup_request
    \/ run_to_compliance_report_request
    \/ run_mock_compliance_agent
    \/ run_handle_financial_only
    \/ workflow_run_returns

SpecWorkflow == Init /\ [][NextWorkflow]_vars

\* ------------------------------ FinancialAnalysisAgentExecutor (agent_executor.py)
\* The user inputs context.get_user_input() may return: blanks, line
\* breaks and a letter.
Queries ==
    { Concat(fs) :
        fs \in UNION { [1..n -> {<<" ">>, <<"\n">>, <<"q">>}] : n \in 0..MaxFragments } }

\* A RequestContext: whether it carries a message, and its user input.
RequestContext(message, query) == [message |-> message, query |-> query]

\* self.agent is None: _create_financial_agent could not build the agent.
NoAgent == [kind |-> "None", readable |-> FALSE, text |-> <<>>]

Introduction == <<"Hi, I'm the Python Financial Analysis Agent! ...">>

Unavailable(query) ==
    <<"I received your question: '">> \o query
        \o <<"'. ", "... the agent framework is currently unavailable. ...">>

ErrorMessage == <<"An error occurred while processing your request: ", "str(e)">>

\* What one call of execute did: the messages it enqueued on the event
\* queue, whether it raised, and whether it called self.agent.run.
Executed(events, raised, invoked) ==
    [events |-> events, raised |-> raised, invoked |-> invoked]

\* execute without its except branch.
execute_no_except(context, outcome) ==
    IF ~context.message
        THEN Executed(<<>>, TRUE, FALSE)
        ELSE IF context.query = <<>> \/ Strip(context.query) = <<>>
            THEN Executed(<<Introduction>>, FALSE, FALSE)
            ELSE IF outcome = NoAgent
                THEN Executed(<<Unavailable(context.query)>>, FALSE, FALSE)
                ELSE IF outcome.readable
                    THEN Executed(<<outcome.text>>, FALSE, TRUE)
                    ELSE Executed(<<>>, TRUE, TRUE)

\* FinancialAnalysisAgentExecutor.execute(context, event_queue), `outcome`
\* being what self.agent is and does: NoAgent, a response with a text, a
\* response whose text is None (slicing it raises), or an exception.
execute(context, outcome) ==
    IF ~context.message
        THEN Executed(<<>>, TRUE, FALSE)
        ELSE IF context.query = <<>> \/ Strip(context.query) = <<>>
            THEN Executed(<<Introduction>>, FALSE, FALSE)
            ELSE IF outcome = NoAgent
                THEN Executed(<<Unavailable(context.query)>>, FALSE, FALSE)
                ELSE IF outcome.readable
                    THEN Executed(<<outcome.text>>, FALSE, TRUE)
                    ELSE Executed(<<ErrorMessage>>, FALSE, TRUE)

\* ------------------------------------------------------- function calls
\* The messages a routing condition is applied to.
Messages ==
    {Response(t) : t \in FinTexts} \cup {UnreadableResponse}
        \cup {Request(t) : t \in FinTexts}

\* The outcomes of workflow.run the handler's reply is computed from.
Outcomes ==
    {RunRaised}
        \cup { RunReturned(os) :
                os \in UNION { [1..n -> PolicyTexts \cup {<<"report">>}] : n \in 0..MaxOutputs } }

apply_condition(expected_review_needed, message) ==
    /\ call' = [fn |-> "condition", expected |-> expected_review_needed,
                arg |-> message,
                result |-> condition(expected_review_needed, message)]
    /\ UNCHANGED <<manager, run>>

apply_analyze_reply(events) ==
    /\ call' = [fn |-> "analyze_reply", arg |-> events, result |-> analyze_reply(events)]
    /\ UNCHANGED <<manager, run>>

\* What the agent of the executor may be and do.
AgentOutcomes ==
    {Response(t) : t \in PolicyTexts} \cup {UnreadableResponse, AgentError, NoAgent}

apply_execute(context, outcome) ==
    /\ call' = [fn |-> "execute", arg |-> context, agent |-> outcome,
                result |-> execute(context, outcome)]
    /\ UNCHANGED <<manager, run>>

NextCalls ==
    \/ \E e \in BOOLEAN, m \in Messages : apply_condition(e, m)
    \/ \E events \in Outcomes : apply_analyze_reply(events)
    \/ \E message \in BOOLEAN, query \in Queries, outcome \in AgentOutcomes :
            apply_execute(RequestContext(message, query), outcome)

SpecCalls == Init /\ [][NextCalls]_vars


\* ================================================================= claims
\* The step made a call `op` of the API on `id`.
Calls(op, id) == lastOp'.op = op /\ lastOp'.id = id

\* What get_task_status returns is the record stored under the id.
StatusIsStoredRecord == lastOp.op = "status" => lastOp.ret = task_results[lastOp.id]

\* C1: every status a poller is given is one of the five values, and once a
\* poller has been given a terminal record for a task, every later poll of
\* that task gives the same status and result.
C1_TerminalStatusNeverChanges ==
    /\ [](\A id \in TaskIds : polled[id].status \in A2ATaskStatus \cup {"none"})
    /\ [][\A id \in TaskIds :
            (polled[id].status \in Terminal /\ Calls("status", id))
                => polled'[id] = polled[id]]_vars

\* C2: between cancel_task and the natural end of the same invocation the
\* first committed transition stands: the end of an invocation that
\* cancel_task has recorded as cancelled leaves the record cancelled, and an
\* invocation that has ended is not cancelled afterwards.
C2_FirstCommittedTransitionWins ==
    [][\A h \in Handles :
        /\ (/\ tasks[h].cancels > 0
             /\ task_results[tasks[h].id].status = "cancelled"
             /\ tasks[h].pc # "done" /\ tasks'[h].pc = "done")
                => task_results'[tasks[h].id].status = "cancelled"
        /\ tasks[h].pc = "done" => tasks'[h].cancels = tasks[h].cancels]_vars

\* C3: when an invocation that cancel_task has cancelled ends with a late
\* result or error (its agent call ignored the cancellation), the result is
\* discarded: nothing is written to task_results or running_tasks.
C3_LateResultDiscarded ==
    [][\A h \in Handles :
        (tasks[h].cancels > 0 /\ tasks[h].pc = "resolved" /\ tasks'[h].pc = "done")
            => UNCHANGED <<task_results, running_tasks>>]_vars

\* C4: no asyncio task is signalled to cancel more than once, and a
\* cancel_task call on an id that an earlier call already cancelled returns
\* false and changes nothing.
C4_CancelledExactlyOnce ==
    /\ [](\A h \in Handles : tasks[h].cancels <= 1)
    /\ [][\A id \in TaskIds :
            (Calls("cancel", id) /\ task_results[id].status = "cancelled")
                => (~lastOp'.ok /\ UNCHANGED <<task_results, running_tasks, tasks>>)]_vars

\* A second cancel_task call returned false while the invocation the first
\* call cancelled is still in flight.
C4_Witness ==
    /\ lastOp.op = "cancel" /\ ~lastOp.ok
    /\ task_results[lastOp.id].status = "cancelled"
    /\ \E h \in Handles :
        tasks[h].id = lastOp.id /\ tasks[h].cancels = 1 /\ tasks[h].pc # "done"

\* C5: cancel_task on an id whose record is pending or running signals the
\* tracked asyncio task, stores cancelled, removes the id from running_tasks
\* and returns true.
C5_CancelRunningTask ==
    [][\A id \in TaskIds :
        (Calls("cancel", id) /\ task_results[id].status \in {"pending", "running"})
            => /\ lastOp'.ok
               /\ InRunning(id)
               /\ tasks'[running_tasks[id]].cancels = tasks[running_tasks[id]].cancels + 1
               /\ task_results'[id] = A2ATaskResponse("cancelled", "", "")
               /\ running_tasks'[id] = 0]_vars

\* cancel_task has just returned true for a task suspended in its agent call.
C5_Witness ==
    /\ lastOp.op = "cancel" /\ lastOp.ok
    /\ task_results[lastOp.id].status = "cancelled"
    /\ ~InRunning(lastOp.id)
    /\ \E h \in Handles :
        tasks[h].id = lastOp.id /\ tasks[h].cancels = 1 /\ tasks[h].pc = "awaiting"

\* C6: cancel_task on an id with no record or with a terminal record returns
\* false and leaves task_results and running_tasks unchanged.
C6_CancelTerminalIsNoOp ==
    [][\A id \in TaskIds :
        (Calls("cancel", id) /\ task_results[id].status \in Terminal \cup {"none"})
            => (~lastOp'.ok /\ UNCHANGED <<task_results, running_tasks>>)]_vars

\* C7: a start_task call that does not return a failed record returns a
\* running record, with a new asyncio task scheduled and tracked under the id.
C7_StartReturnsRunning ==
    [][\A id \in TaskIds :
        (Calls("start", id) /\ lastOp'.ret.status # "failed")
            => /\ lastOp'.ret.status = "running"
               /\ task_results'[id].status = "running"
               /\ Len(tasks') = Len(tasks) + 1
               /\ tasks'[Len(tasks')] = NewTask(id)
               /\ running_tasks'[id] = Len(tasks')]_vars

\* start_task has just returned running with its task scheduled and tracked.
C7_Witness ==
    /\ lastOp.op = "start" /\ lastOp.ret.status = "running"
    /\ InRunning(lastOp.id)
    /\ tasks[running_tasks[lastOp.id]].pc = "scheduled"

\* C8: when an invocation that was not cancelled resumes with the agent's
\* text, the record becomes completed with that text and the task is no
\* longer tracked; get_task_status returns the stored record.
C8_CompletedWithText ==
    /\ []StatusIsStoredRecord
    /\ [][\A h \in Handles :
            (/\ tasks[h].pc = "resolved" /\ tasks[h].out \in Texts
             /\ tasks[h].cancels = 0
             /\ tasks'[h].pc = "done")
                => /\ task_results'[tasks[h].id]
                        = A2ATaskResponse("completed", tasks[h].out, "")
                   /\ running_tasks'[tasks[h].id] # h]_vars

\* A poll has just returned completed with a text for an invocation that
\* ended without having been cancelled.
C8_Witness ==
    /\ lastOp.op = "status"
    /\ lastOp.ret.status = "completed" /\ lastOp.ret.result \in Texts
    /\ ~InRunning(lastOp.id)
    /\ \E h \in Handles :
        tasks[h].id = lastOp.id /\ tasks[h].pc = "done" /\ tasks[h].cancels = 0

\* C9: when an invocation that was not cancelled ends with an Exception
\* (raised by the agent call, or before it), the record becomes failed with
\* the Exception's message and the id is no longer tracked; get_task_status
\* returns the stored record.
C9_ExceptionRecordedAsFailed ==
    /\ []StatusIsStoredRecord
    /\ [][\A h \in Handles :
            /\ (/\ tasks[h].pc = "resolved" /\ tasks[h].out \in Errors
                 /\ tasks[h].cancels = 0
                 /\ tasks'[h].pc = "done")
                    => /\ task_results'[tasks[h].id]
                            = A2ATaskResponse("failed", "", tasks[h].out)
                       /\ ~InRunning(tasks[h].id)'
            /\ (/\ tasks[h].pc = "scheduled" /\ tasks[h].cancels = 0
                 /\ tasks'[h].pc = "done")
                    => /\ task_results'[tasks[h].id].status = "failed"
                       /\ task_results'[tasks[h].id].error \in Errors
                       /\ ~InRunning(tasks[h].id)']_vars

\* A poll has just returned the failed record of an invocation that raised.
C9_Witness ==
    /\ lastOp.op = "status"
    /\ lastOp.ret.status = "failed" /\ lastOp.ret.error \in Errors
    /\ ~InRunning(lastOp.id)
    /\ \E h \in Handles :
        tasks[h].id = lastOp.id /\ tasks[h].pc = "done" /\ tasks[h].cancels = 0

\* C10: a start_task call in which scheduling fails returns a failed record
\* carrying the error and stores that record under the request id.
C10_SchedulingFailureReturned ==
    [][\A id \in TaskIds :
        (Calls("start", id) /\ tasks' = tasks)
            => /\ lastOp'.ret = A2ATaskResponse("failed", "", SchedError)
               /\ task_results'[id] = lastOp'.ret]_vars

\* start_task has just returned the failed record it stored.
C10_Witness ==
    /\ lastOp.op = "start"
    /\ lastOp.ret = A2ATaskResponse("failed", "", SchedError)
    /\ task_results[lastOp.id] = lastOp.ret

\* C11: get_task_status is a lookup: a call changes neither dictionary nor
\* any task, and it returns the record stored under the id at the moment of
\* the call, which is the one the last commit for that id wrote.
C11_StatusIsPureLookup ==
    [][\A id \in TaskIds :
            Calls("status", id)
                => /\ UNCHANGED <<task_results, running_tasks, tasks>>
                   /\ lastOp'.ret = task_results[id]
                   /\ lastOp'.ret = task_results'[id]]_vars

\* A status call answered with the running record while the agent call of
\* the task is in flight.
C11_Witness ==
    /\ lastOp.op = "status"
    /\ lastOp.ret.status = "running"
    /\ \E h \in Handles : tasks[h].id = lastOp.id /\ tasks[h].pc = "awaiting"

\* C12: a status query for an id under which nothing is stored is answered
\* with status not_found, which is none of the task statuses (so never
\* failed), and stores nothing under the id.
C12_UnknownIdIsNotFound ==
    [][\A id \in TaskIds :
            (Calls("status", id) /\ task_results[id] = None)
                => /\ handle_task_status_request(lastOp'.ret).status = "not_found"
                   /\ handle_task_status_request(lastOp'.ret).status \notin A2ATaskStatus
                   /\ task_results'[id] = None]_vars

\* A status query for an unknown id while a failed record is stored under
\* another id, whose query is answered with failed.
C12_Witness ==
    /\ lastOp.op = "status"
    /\ lastOp.ret = None
    /\ handle_task_status_request(lastOp.ret).status = "not_found"
    /\ \E j \in TaskIds :
            handle_task_status_request(task_results[j]).status = "failed"

\* ------------------------------------------------------ workflow claims
InTrace(node) == \E i \in 1..Len(run.trace) : run.trace[i] = node

\* The financial agent has just answered and its response has been routed.
FinancialAnswered ==
    /\ run.status = "running"
    /\ run.trace = <<"financial_analysis_agent">>

\* The keyword occurs in the text at offset i, letters compared without
\* regard to case.
OccursAt(keyword, text, i) ==
    /\ i + Len(keyword) <= Len(text)
    /\ \A j \in 1..Len(keyword) :
            \/ text[i + j] = keyword[j]
            \/ text[i + j] \in Upper /\ LowerCase[text[i + j]] = keyword[j]

\* Some word of the vocabulary occurs somewhere in the text, in any case.
MentionsPolicy(text) ==
    \E k \in 1..Len(policy_keywords), i \in 0..Len(text) :
        OccursAt(policy_keywords[k], text, i)

\* C13: a readable response of the financial agent that mentions a word of
\* the vocabulary in any case (such as "Compliance") is delivered to the
\* policy path and nowhere else; one that mentions none is delivered to the
\* direct-output node and nowhere else.
C13_KeywordSelectsPolicyPath ==
    FinancialAnswered =>
        \A n \in 1..Len(run.emitted) :
            run.emitted[n].readable =>
                /\ MentionsPolicy(run.emitted[n].text)
                    => run.pending = <<[to |-> "to_policy_lookup_request",
                                        msg |-> run.emitted[n]]>>
                /\ ~MentionsPolicy(run.emitted[n].text)
                    => run.pending = <<[to |-> "handle_financial_only",
                                        msg |-> run.emitted[n]]>>
                /\ In(<<"c", "o", "m", "p", "l", "i", "a", "n", "c", "e">>,
                      Lower(run.emitted[n].text))
                    => Head(run.pending).to = "to_policy_lookup_request"

\* A response "ok SOX"-like, the keyword in upper case after another word,
\* routed to the policy path.
C13_Witness ==
    /\ FinancialAnswered
    /\ run.emitted = <<Response(<<"o", "k", "S", "O", "X">>)>>
    /\ Head(run.pending).to = "to_policy_lookup_request"

\* C14: exactly one of condition(True) and condition(False) accepts what the
\* financial agent node sent, so the message is delivered along exactly one
\* of its two edges, and no run executes both branches.
C14_ExactlyOneBranch ==
    /\ FinancialAnswered =>
        /\ Len(run.emitted) = 1
        /\ condition(TRUE, run.emitted[1]) # condition(FALSE, run.emitted[1])
        /\ Len(run.pending) = 1
        /\ Head(run.pending).to \in {"to_policy_lookup_request", "handle_financial_only"}
    /\ ~(InTrace("to_policy_lookup_request") /\ InTrace("handle_financial_only"))
    /\ run.status = "completed"
        => (InTrace("to_policy_lookup_request") \/ InTrace("handle_financial_only"))

\* The financial agent's response cannot be read: only the direct branch
\* takes it.
C14_Witness ==
    /\ FinancialAnswered
    /\ run.emitted = <<UnreadableResponse>>
    /\ run.pending = <<[to |-> "handle_financial_only", msg |-> UnreadableResponse]>>

\* C15: applied to a message it cannot evaluate (not an agent response, or
\* one whose text cannot be read) the condition expecting True rejects and
\* the condition expecting False accepts.
C15_UnevaluableMeansAbsent ==
    (/\ call.fn = "condition"
     /\ (call.arg.kind # "AgentExecutorResponse" \/ ~call.arg.readable))
        => call.result = (call.expected = FALSE)

\* C16: no node is executed twice in a run, so a run executes at most as
\* many nodes as the graph has and then ends.
C16_NoNodeTwice ==
    /\ \A i, j \in 1..Len(run.trace) : i # j => run.trace[i] # run.trace[j]
    /\ Len(run.trace) <= Len(Edges) + 1

\* A finished run through the longest path of the graph.
C16_Witness ==
    /\ run.status = "completed"
    /\ Len(run.trace) = 5

Transforms == {"to_policy_lookup_request", "to_compliance_report_request"}

OutputNodes == {"handle_financial_only", "mock_compliance_agent"}

\* C17: a transform handed a response it cannot read sends its fallback
\* request to its successor and the run goes on; a run is only ever ended
\* by an exception at an agent node, never at a transform, and a run that
\* was not ended that way finishes at an output node.
C17_TransformFallsBack ==
    /\ [][(/\ run.status = "running"
           /\ run.pending # <<>>
           /\ Head(run.pending).to \in Transforms
           /\ ~Head(run.pending).msg.readable
           /\ run' # run)
            => /\ run'.status = "running"
               /\ run'.emitted =
                    <<Request(IF Head(run.pending).to = "to_policy_lookup_request"
                                THEN PolicyFallback ELSE ComplianceFallback)>>
               /\ Len(run'.pending) = 1
               /\ Head(run'.pending).msg = run'.emitted[1]
               /\ Head(run'.pending).to =
                    (IF Head(run.pending).to = "to_policy_lookup_request"
                        THEN "policy_lookup_agent" ELSE "mock_compliance_agent")]_vars
    /\ [](run.status = "raised"
            => run.trace[Len(run.trace)] \in {"financial_analysis_agent", "policy_lookup_agent"})
    /\ [](run.status = "completed" => run.trace[Len(run.trace)] \in OutputNodes)

\* The policy agent's response could not be read: the compliance request
\* transform has sent its fallback request on to the compliance node and
\* the run is going on.
C17_Witness ==
    /\ run.status = "running"
    /\ InTrace("to_compliance_report_request")
    /\ ~InTrace("mock_compliance_agent")
    /\ run.emitted = <<Request(ComplianceFallback)>>
    /\ run.pending = <<[to |-> "mock_compliance_agent",
                         msg |-> Request(ComplianceFallback)]>>

PolicyPath ==
    <<"financial_analysis_agent", "to_policy_lookup_request", "policy_lookup_agent",
      "to_compliance_report_request", "mock_compliance_agent">>

DirectPath == <<"financial_analysis_agent", "handle_financial_only">>

IsPrefix(s, t) == Len(s) <= Len(t) /\ s = SubSeq(t, 1, Len(s))

\* C18: the nodes a run has executed are, in order, an initial part of the
\* policy path or of the direct path; a finished run has executed one of
\* the two in full and has yielded one non-empty text; a run that executed
\* the financial-only node has not invoked the policy lookup agent.
C18_PathsInOrder ==
    /\ IsPrefix(run.trace, PolicyPath) \/ IsPrefix(run.trace, DirectPath)
    /\ run.status = "completed"
        => /\ run.trace \in {PolicyPath, DirectPath}
           /\ Len(run.outputs) = 1
           /\ run.outputs[1] # <<>>
    /\ InTrace("handle_financial_only") => ~InTrace("policy_lookup_agent")

\* A finished run of the policy path with its report.
C18_Witness ==
    /\ run.status = "completed"
    /\ run.trace = PolicyPath
    /\ run.outputs = mock_compliance_agent(Request(<<>>)).yielded
    /\ run.reply = [status |-> "success", result |-> run.outputs[1]]

\* C19: a run that returns without any output is answered with status
\* error and "No output generated from workflow", which is neither the
\* success reply nor the reply given when the run raised.
C19_DeadEndReportedDistinctly ==
    call.fn = "analyze_reply" =>
        /\ (~call.arg.raised /\ call.arg.outputs = <<>>)
            => /\ call.result = [status |-> "error",
                                 result |-> <<"No output generated from workflow">>]
               /\ call.result # analyze_reply(RunRaised)
        /\ call.arg.raised => call.result.status = "http_500"
        /\ call.result.status = "error" => call.arg.outputs = <<>>

\* The handler replying to a run that returned no output.
C19_Witness ==
    /\ call.fn = "analyze_reply"
    /\ call.arg = RunReturned(<<>>)
    /\ call.result.status = "error"

\* C20: every output a run has yielded is non-empty, and each of the three
\* output nodes, handed any message that is in flight in a run (a response
\* with a text, with the empty text or with no readable text, or a
\* request), yields exactly one non-empty output; a run that has not ended
\* can take a step; a finished run is answered with success and a
\* non-empty text or with an error, a run that raised with an HTTP 500.
C20_OutputOrStructuredError ==
    /\ \A n \in 1..Len(run.outputs) : run.outputs[n] # <<>>
    /\ \A n \in 1..Len(run.pending) :
            /\ Len(handle_financial_only(run.pending[n].msg).yielded) = 1
            /\ handle_financial_only(run.pending[n].msg).yielded[1] # <<>>
            /\ Len(handle_compliance_report(run.pending[n].msg).yielded) = 1
            /\ handle_compliance_report(run.pending[n].msg).yielded[1] # <<>>
            /\ Len(mock_compliance_agent(run.pending[n].msg).yielded) = 1
            /\ mock_compliance_agent(run.pending[n].msg).yielded[1] # <<>>
    /\ run.status = "running" => ENABLED NextWorkflow
    /\ run.status = "completed"
        => \/ run.reply.status = "success" /\ run.reply.result # <<>>
           \/ run.reply.status = "error"
    /\ run.status = "raised" => run.reply.status = "http_500"
    /\ run.status \in {"idle", "running"} => run.reply.status = "none"

\* A finished run whose financial response had an empty text: the reply is
\* the report frame.
C20_Witness ==
    /\ run.status = "completed"
    /\ run.trace = DirectPath
    /\ run.outputs = handle_financial_only(Response(<<>>)).yielded
    /\ run.reply.status = "success"
    /\ Len(run.reply.result) > 0

\* The positions, in registration order, of the edges out of `node` that
\* accept the message.
AcceptingEdges(node, message) ==
    { i \in 1..Len(Edges) : Edges[i].from = node /\ Accepts(Edges[i], message) }

\* The least of a non-empty set of positions.
First(positions) == CHOOSE i \in positions : \A j \in positions : i <= j

\* C21: whenever a node has sent a message in a run, the message is in
\* flight to exactly one node, the destination of the first edge out of the
\* sending node that accepts it.
C21_ExactlyOneSuccessor ==
    (run.status = "running" /\ run.emitted # <<>>) =>
        LET node == run.trace[Len(run.trace)]
            message == run.emitted[1]
        IN  /\ Len(run.emitted) = 1
            /\ AcceptingEdges(node, message) # {}
            /\ run.pending =
                <<[to |-> Edges[First(AcceptingEdges(node, message))].to,
                   msg |-> message]>>

\* The financial agent answered "Compliance": the response is in flight to
\* the policy lookup transform alone, although the edge to the
\* financial-only node leaves the same node.
C21_Witness ==
    /\ FinancialAnswered
    /\ run.emitted = <<Response(<<"C", "o", "m", "p", "l", "i", "a", "n", "c", "e">>)>>
    /\ run.pending = <<[to |-> "to_policy_lookup_request", msg |-> run.emitted[1]]>>

\* The query is empty or consists of white space only.
Blank(query) == \A i \in 1..Len(query) : query[i] \in Whitespace

\* C22: execute, called with a context that carries a message, does not
\* raise and enqueues exactly one message; for a blank query the message is
\* the introduction and the agent is not invoked; when the agent raises (or
\* its response has no text) the message is the error text.
C22_ExecuteEnqueuesOneMessage ==
    (call.fn = "execute" /\ call.arg.message) =>
        /\ ~call.result.raised
        /\ Len(call.result.events) = 1
        /\ Blank(call.arg.query)
            => (call.result.events = <<Introduction>> /\ ~call.result.invoked)
        /\ (~Blank(call.arg.query) /\ call.agent \in {AgentError, UnreadableResponse})
            => (call.result.events = <<ErrorMessage>> /\ call.result.invoked)
        /\ (~Blank(call.arg.query) /\ call.agent.readable)
            => call.result.events = <<call.agent.text>>

\* A query " q" answered by an agent that raises: one error message.
C22_Witness ==
    /\ call.fn = "execute"
    /\ call.arg = RequestContext(TRUE, <<" ", "q">>)
    /\ call.agent = AgentError
    /\ call.result = Executed(<<ErrorMessage>>, FALSE, TRUE)

\* C23: a handle is tracked for an id exactly when the record stored under
\* the id has status running, and every tracked id has a record.
C23_TrackedIffRunning ==
    \A id \in TaskIds :
        /\ InRunning(id) <=> task_results[id].status = "running"
        /\ InRunning(id) => task_results[id] # None

\* The invocation of handle h ends with a result or an Exception: its
\* coroutine goes from the resumed await, or from reading the request, to
\* its end without having been cancelled.
Completes(h) ==
    /\ tasks[h].pc \in {"scheduled", "resolved"}
    /\ tasks[h].cancels = 0
    /\ tasks'[h].pc = "done"

\* A later start_task call with the same id created handle g.
Restarted(h, g) == g > h /\ tasks[g].id = tasks[h].id

\* C24: when an invocation completes after start_task has been called
\* again with its id, the completion changes neither the record stored
\* under the id nor the handle tracked for it.
C24_CompletionLeavesNewerTask ==
    [][\A h \in Handles :
            (Completes(h) /\ \E g \in Handles : Restarted(h, g))
                => /\ task_results'[tasks[h].id] = task_results[tasks[h].id]
                   /\ running_tasks'[tasks[h].id] = running_tasks[tasks[h].id]]_vars

\* The step is one of the operations on id j: a start_task or cancel_task
\* call with that id, or a step of an invocation started with it.
OperatesOn(j) ==
    \/ Calls("start", j)
    \/ Calls("cancel", j)
    \/ \E h \in Handles : tasks[h].id = j /\ tasks'[h] # tasks[h]

\* C25: a step that changes the record stored under an id or the handle
\* tracked for it is an operation on that id, and an operation changes the
\* record and handle of one id at most.
C25_IdsIsolated ==
    [][/\ \A j \in TaskIds :
            (task_results'[j] # task_results[j] \/ running_tasks'[j] # running_tasks[j])
                => OperatesOn(j)
       /\ \A i, j \in TaskIds :
            (/\ task_results'[i] # task_results[i] \/ running_tasks'[i] # running_tasks[i]
             /\ task_results'[j] # task_results[j] \/ running_tasks'[j] # running_tasks[j])
                => i = j]_vars

\* The invocation for t1 has completed while t2 is still tracked and
\* running.
C25_Witness ==
    /\ task_results["t1"].status = "completed"
    /\ ~InRunning("t1")
    /\ task_results["t2"].status = "running"
    /\ InRunning("t2")
    /\ \E h \in Handles : tasks[h].id = "t1" /\ tasks[h].pc = "done"

\* C26: no record stored has status pending at the end of a step, so no
\* status query is answered with pending.
C26_PendingNeverObservable ==
    /\ \A id \in TaskIds : task_results[id].status # "pending"
    /\ lastOp.op = "status" => lastOp.ret.status # "pending"

\* A status query made after start_task returned and before the background
\* invocation took its first step: the answer is running.
C26_Witness ==
    /\ lastOp.op = "status"
    /\ lastOp.ret.status = "running"
    /\ InRunning(lastOp.id)
    /\ tasks[running_tasks[lastOp.id]].pc = "scheduled"

\* C28: a request that does not parse is answered with status failed and
\* the error text; the call creates no task and changes no entry of
\* task_results or running_tasks.
C28_InvalidRequestChangesNothing ==
    [][\A id \in TaskIds :
            Calls("request", id)
                => /\ lastOp'.ret.status = "failed"
                   /\ lastOp'.ret.error = ParseError
                   /\ UNCHANGED <<task_results, running_tasks, tasks>>]_vars

\* A request that does not parse and carries the id of a running task: the
\* task is still tracked and running.
C28_Witness ==
    /\ lastOp.op = "request"
    /\ lastOp.ret.status = "failed"
    /\ InRunning(lastOp.id)
    /\ task_results[lastOp.id].status = "running"

\* C27: when the event loop keeps running ready tasks and agent calls end,
\* every invocation started reaches its end, every id whose record is
\* running gets a terminal record, and every tracked handle leaves
\* running_tasks.
C27_EveryTaskTerminates ==
    /\ \A h \in 1..MaxTasks : (h \in Handles) ~> (h \in Handles /\ tasks[h].pc = "done")
    /\ \A id \in TaskIds :
            (task_results[id].status = "running") ~> (task_results[id].status \in Terminal)
    /\ \A id \in TaskIds : InRunning(id) ~> ~InRunning(id)

\* An invocation that was cancelled while its agent call was in flight has
\* ended, its record is cancelled and its handle is gone.
C27_Witness ==
    /\ \E h \in Handles :
            /\ tasks[h].pc = "done"
            /\ tasks[h].cancels > 0
            /\ task_results[tasks[h].id].status = "cancelled"
            /\ ~InRunning(tasks[h].id)
    /\ \A h \in Handles : tasks[h].pc = "done"

\* The request a transform builds from a response it can read begins with
\* the first line of its template and carries the response's text.
Templated(node, request) ==
    /\ request.kind = "AgentExecutorRequest"
    /\ request.text # <<>>
    /\ request.text[1] =
        (IF node = "to_policy_lookup_request"
            THEN "Based on the following financial analysis:"
            ELSE "Generate a comprehensive compliance report ...")

Fallback(node) ==
    Request(IF node = "to_policy_lookup_request" THEN PolicyFallback ELSE ComplianceFallback)

\* C29: the node executed last being a transform, it has sent exactly one
\* message, which is either its templated request or its fallback request,
\* and that one message is in flight to its one successor.
C29_TransformSendsOneRequest ==
    (run.trace # <<>> /\ run.trace[Len(run.trace)] \in Transforms) =>
        LET node == run.trace[Len(run.trace)]
        IN  /\ run.status = "running"
            /\ Len(run.emitted) = 1
            /\ Templated(node, run.emitted[1]) # (run.emitted[1] = Fallback(node))
            /\ Len(run.pending) = 1
            /\ run.pending[1].msg = run.emitted[1]

\* The policy lookup transform has sent its templated request, built from
\* the analysis "SOX", to the policy lookup agent.
C29_Witness ==
    /\ run.status = "running"
    /\ run.trace = <<"financial_analysis_agent", "to_policy_lookup_request">>
    /\ Len(run.emitted) = 1
    /\ Templated("to_policy_lookup_request", run.emitted[1])
    /\ In(<<"S", "O", "X">>, run.emitted[1].text)
    /\ run.pending = <<[to |-> "policy_lookup_agent", msg |-> run.emitted[1]]>>

\* The nodes of the graph.
Nodes == { Edges[i].from : i \in 1..Len(Edges) } \cup { Edges[i].to : i \in 1..Len(Edges) }

Successors(node) == { Edges[i].to : i \in { j \in 1..Len(Edges) : Edges[j].from = node } }

\* The nodes that can be reached from `from` along at most n edges.
RECURSIVE Within(_, _)
Within(from, n) ==
    IF n = 0
        THEN {from}
        ELSE Within(from, n - 1) \cup UNION { Successors(m) : m \in Within(from, n - 1) }

Reachable(from) == Within(from, Len(Edges))

\* C30: once a request has had the graph built, every node reachable from the start node is an output
\* node or has an outgoing edge, no reachable node can be reached from one
\* of its own successors, only output nodes are without outgoing edge (so
\* every maximal path ends at one), and handle_compliance_report is not
\* reachable; the runs agree: every node a run has executed is reachable,
\* and a finished run has ended at an output node.
C30_GraphWellFormed ==
    /\ run.status # "idle" =>
        /\ \A n \in Reachable(StartExecutor) : n \in OutputNodes \/ Successors(n) # {}
        /\ \A n \in Reachable(StartExecutor) : \A m \in Successors(n) : n \notin Reachable(m)
        /\ \A n \in OutputNodes : n \in Reachable(StartExecutor) /\ Successors(n) = {}
        /\ "handle_compliance_report" \notin Reachable(StartExecutor)
    /\ \A i \in 1..Len(run.trace) : run.trace[i] \in Reachable(StartExecutor)
    /\ run.status = "completed"
        => (run.trace[Len(run.trace)] \in OutputNodes /\ run.outputs # <<>>)

\* A finished run of the direct path whose financial response could not be
\* read: it ended at the financial-only output node.
C30_Witness ==
    /\ run.status = "completed"
    /\ run.trace = DirectPath
    /\ run.outputs = handle_financial_only(UnreadableResponse).yielded

====
